---- MODULE Spec2Model ----
(***************************************************************************)
(* Model of the workflow launcher in src/src/tool_name/util.py:            *)
(*   - run_snakemake (lines 120-197), one call followed statement by       *)
(*     statement, with the cluster query of get_hpc / scontrol_show;       *)
(*   - update_config (lines 64-73), the in-place recursive merge.          *)
(*                                                                         *)
(* Python values are represented as follows.                               *)
(*   None            the string None (see the definition below)            *)
(*   list tokens     records [str |-> s] or [int |-> n], so that the int   *)
(*                   threads and a str "2" stay different until str() is   *)
(*                   applied by the join of line 180                       *)
(*   an exception    a record [exc |-> name, line |-> raising line]        *)
(***************************************************************************)
EXTENDS Integers, Sequences, FiniteSets, TLC

\* ------------------------------------------------------------------ bounds
MaxThreads == 2
MaxScalar == 2
MaxUpdates == 2

\* ------------------------------------------------------------- Python glue
None == "None"

\* bool(x) of a str-or-None value
Truthy(x) == x # None /\ x # ""

S(s) == [str |-> s]
I(n) == [int |-> n]

\* str(tok) as applied to each token by line 180
str(tok) == IF "str" \in DOMAIN tok THEN tok.str ELSE ToString(tok.int)

RECURSIVE JoinFrom(_, _)
JoinFrom(toks, i) ==
  IF i > Len(toks) THEN ""
  ELSE IF i = Len(toks) THEN str(toks[i])
  ELSE str(toks[i]) \o " " \o JoinFrom(toks, i + 1)

\* " ".join(str(s) for s in snake_command)
Join(toks) == JoinFrom(toks, 1)

Strs(seq) == [i \in 1..Len(seq) |-> S(seq[i])]

\* x in list
Contains(seq, tok) == \E i \in 1..Len(seq) : seq[i] = tok

\* ------------------------------------------------------ cluster detection
\* The stdout of "scontrol show config" is a sequence of lines; a line is
\* given as the fields line.split("=") yields; a field is a sequence of
\* chunks in which " " stands for a run of whitespace.
RECURSIVE LStrip(_)
LStrip(f) == IF f # <<>> /\ Head(f) = " " THEN LStrip(Tail(f)) ELSE f

RECURSIVE RStrip(_)
RStrip(f) ==
  IF f # <<>> /\ f[Len(f)] = " " THEN RStrip(SubSeq(f, 1, Len(f) - 1)) ELSE f

RECURSIVE Concat(_)
Concat(f) == IF f = <<>> THEN "" ELSE Head(f) \o Concat(Tail(f))

\* field.strip()
Strip(f) == Concat(RStrip(LStrip(f)))

RECURSIVE scontrol_dict(_, _)
scontrol_dict(lines, d) ==
  IF lines = <<>> THEN d
  ELSE LET line_split == Head(lines)
           d2 == IF Len(line_split) > 1
                 THEN [k \in DOMAIN d \cup {Strip(line_split[1])} |->
                         IF k = Strip(line_split[1]) THEN Strip(line_split[2])
                         ELSE d[k]]
                 ELSE d
       IN  scontrol_dict(Tail(lines), d2)

\* scontrol_show(): the parsed KEY = VALUE lines; an empty stdout gives {}
scontrol_show(out) == scontrol_dict(out, <<>>)

get_hpc(out) ==
  LET d == scontrol_show(out)
  IN  IF "ClusterName" \in DOMAIN d THEN d["ClusterName"] ELSE None

hpc_options ==
  [biowulf |-> [profile |-> "biowulf", slurm |-> "assets/slurm_header_biowulf.sh"],
   fnlcr   |-> [profile |-> "frce",    slurm |-> "assets/slurm_header_frce.sh"]]

\* ------------------------------------------------------- input universes
ScontrolOutputs ==
  { <<>>,
    << <<<<"Configuration data as of today">>>>,
       <<<<"SLURM_VERSION", " ">>, <<" ", "23.02">>>> >>,
    << <<<<"ClusterName", " ">>, <<" ", "biowulf">>>> >>,
    << <<<<"AuthType", " ">>, <<" ", "auth/munge">>>>,
       <<<<"ClusterName", " ">>, <<" ", "fnlcr">>>> >>,
    << <<<<"ClusterName", " ">>, <<" ", "helix">>>> >>,
    << <<<<"ClusterName", " ">>, <<" ">>>> >> }

Modes == {"local", "slurm", "bogus"}
Snakefiles == {"workflow/Snakefile"}
DefaultArgs == { <<>>, <<"--nolock">>, <<"--rerun-incomplete", "--printshellcmds">> }
UserArgs ==
  { <<>>, <<"--dry-run">>, <<"--profile", "userprof">>, <<"--cores", "8">>,
    <<"--forceall", "--profile", "userprof">> }
Profiles == {None, "", "slurmprof"}
WorkflowProfiles == {None, "wp"}

ProfileConfig(wp) == wp \o "/config.yaml"
slurm_filename == "submit_slurm.sh"

\* a file system: path -> contents, for the paths that exist
FileSystems ==
  LET paths == {ProfileConfig("wp"), slurm_filename}
  IN  UNION { [P -> {"old"}] : P \in SUBSET paths }

\* ---------------------------------------------------------- update_config
\* A configuration value is a scalar [v |-> n] or a mapping [m |-> f], f a
\* function from the keys present to values.
V(n) == [v |-> n]
M(f) == [m |-> f]

\* isinstance(x, collections.abc.Mapping)
IsMapping(x) == "m" \in DOMAIN x

Keys == {"a", "b"}
KeyOrders == { <<"a", "b">>, <<"b", "a">> }
Scalars == { V(n) : n \in 1..MaxScalar }
MapsTo(vals) == UNION { [K -> vals] : K \in SUBSET Keys }
Mappings1 == { M(f) : f \in MapsTo(Scalars) }
Mappings2 == { M(f) : f \in MapsTo(Scalars \cup Mappings1) }

\* overrides nested one level deeper than Mappings2
DeepOverrides ==
  { M([a |-> M([a |-> M([b |-> V(2)])])]),
    M([a |-> M([b |-> M(<<>>)]), b |-> V(1)]),
    M([b |-> V(2), a |-> M([a |-> M([a |-> V(1)]), b |-> V(1)])]) }

\* an assignment that accumulates scalars instead of replacing them
setitem_accumulate(f, key, value) ==
  [k \in DOMAIN f \cup {key} |->
     IF k # key THEN f[k]
     ELSE IF key \in DOMAIN f /\ ~IsMapping(f[key]) /\ ~IsMapping(value)
          THEN V(f[key].v + value.v)
          ELSE value]

\* d[key] = value  (lines 68 and 70)
setitem(f, key, value) ==
  [k \in DOMAIN f \cup {key} |-> IF k = key THEN value ELSE f[k]]

\* _update(d, u) of lines 65-71, over the items of u not yet visited (keys);
\* order is the order in which a mapping's items are iterated.  The result
\* is d as the call leaves it and whether the call returned (ok) or raised.
\* d is mutated in place, so what was assigned before an exception stays
\* assigned.  A d that is no mapping has neither .get nor item assignment:
\* visiting any item of u raises.
RECURSIVE _update(_, _, _, _)
_update(d, u, keys, order) ==
  IF keys = <<>> THEN [d |-> d, ok |-> TRUE]
  ELSE
    LET key == Head(keys) IN
    IF key \notin DOMAIN u.m THEN _update(d, u, Tail(keys), order)
    ELSE IF ~IsMapping(d) THEN [d |-> d, ok |-> FALSE]
    ELSE
      LET value == u.m[key] IN
      IF IsMapping(value)
      THEN LET present == key \in DOMAIN d.m
               sub == IF present THEN d.m[key] ELSE M(<<>>)
               r == _update(sub, value, order, order)
           IN  IF r.ok
               THEN _update(M(setitem(d.m, key, r.d)), u, Tail(keys), order)
               ELSE [d |-> IF present THEN M(setitem(d.m, key, r.d)) ELSE d,
                     ok |-> FALSE]
      ELSE _update(M(setitem(d.m, key, value)), u, Tail(keys), order)

\* update_config(config, overwrite_config), line 73
update_config(cfg, over, order) == _update(cfg, over, order, order)

\* ------------------------------------------------------------------ state
VARIABLES
  pc,               \* position in run_snakemake
  mode, threads, snakefile_path, snake_default, snake_args, profile,
  workflow_profile, \* the arguments of the call
  scontrol_out,     \* what "scontrol show config" prints on this machine
  hpc,              \* line 148
  snake_command,    \* the token list of lines 147-177
  command_string,   \* the joined command of line 180
  subprocs,         \* the subprocess.run commands issued so far, in order
  files,            \* the file system
  error,            \* the exception that ended the call
  config,           \* the mapping update_config mutates
  overwrite_config, \* the override mapping
  key_order,        \* the order in which dict items are iterated
  config0,          \* config before the first update_config
  raised,           \* whether the last update_config raised
  updates           \* number of update_config calls made

args == <<mode, threads, snakefile_path, snake_default, snake_args, profile,
          workflow_profile>>
run_vars == <<pc, args, scontrol_out, hpc, snake_command, command_string,
              subprocs, files, error>>
merge_vars == <<config, overwrite_config, key_order, config0, raised, updates>>
vars == <<run_vars, merge_vars>>

NoError == [exc |-> "none", line |-> 0]

Init ==
  /\ pc = "idle"
  /\ mode = "local" /\ threads = 1 /\ snakefile_path = None
  /\ snake_default = <<>> /\ snake_args = <<>>
  /\ profile = None /\ workflow_profile = None
  /\ scontrol_out \in ScontrolOutputs
  /\ hpc = None
  /\ snake_command = <<>>
  /\ command_string = ""
  /\ subprocs = <<>>
  /\ files \in FileSystems
  /\ error = NoError
  /\ config = M(<<>>) /\ overwrite_config = M(<<>>) /\ config0 = M(<<>>)
  /\ key_order = <<>> /\ raised = FALSE /\ updates = 0

\* --------------------------------------------------- command assembly
\* add_threads testing only the profile argument
add_threads_profile_only(cmd, sargs, prof, thr) ==
  IF prof = None THEN cmd \o <<S("--cores"), I(thr)>> ELSE cmd

\* lines 152-154
add_threads(cmd, sargs, prof, thr) ==
  IF ~Contains(sargs, "--profile") /\ prof = None
  THEN cmd \o <<S("--cores"), I(thr)>>
  ELSE cmd

\* lines 156-158
add_default(cmd, sdefault) ==
  IF sdefault # <<>> THEN cmd \o Strs(sdefault) ELSE cmd

\* lines 160-162
add_args(cmd, sargs) ==
  IF sargs # <<>> THEN cmd \o Strs(sargs) ELSE cmd

\* lines 164-166
add_profile(cmd, prof) ==
  IF Truthy(prof) THEN cmd \o <<S("--profile"), S(prof)>> ELSE cmd

\* ------------------------------------------------------------- actions
\* the call, and line 147
Invoke ==
  /\ pc = "idle"
  /\ mode' \in Modes
  /\ threads' \in 1..MaxThreads
  /\ snakefile_path' \in Snakefiles
  /\ snake_default' \in DefaultArgs
  /\ snake_args' \in UserArgs
  /\ profile' \in Profiles
  /\ workflow_profile' \in WorkflowProfiles
  /\ snake_command' = <<S("snakemake"), S("-s"), S(snakefile_path')>>
  /\ pc' = "get_hpc"
  /\ UNCHANGED <<merge_vars, scontrol_out, hpc, command_string, subprocs, files, error>>

\* line 148: get_hpc() runs "scontrol show config" (line 91)
GetHpc ==
  /\ pc = "get_hpc"
  /\ subprocs' = Append(subprocs, "scontrol show config")
  /\ hpc' = get_hpc(scontrol_out)
  /\ pc' = "check_hpc"
  /\ UNCHANGED <<merge_vars, args, scontrol_out, snake_command, command_string, files, error>>

\* the test of line 149 written as "hpc is None"
no_hpc_for_slurm_is_none(m, h) == m = "slurm" /\ h = None

\* lines 149-150
no_hpc_for_slurm(m, h) == m = "slurm" /\ ~Truthy(h)

CheckHpc ==
  /\ pc = "check_hpc"
  /\ IF no_hpc_for_slurm(mode, hpc)
     THEN /\ error' = [exc |-> "ValueError", line |-> 150]
          /\ pc' = "failed"
     ELSE /\ pc' = "assemble"
          /\ UNCHANGED error
  /\ UNCHANGED <<merge_vars, args, scontrol_out, hpc, snake_command, command_string,
                 subprocs, files>>

\* lines 152-166
Assemble ==
  /\ pc = "assemble"
  /\ snake_command' =
       add_profile(
         add_args(
           add_default(
             add_threads(snake_command, snake_args, profile, threads),
             snake_default),
           snake_args),
         profile)
  /\ pc' = "workflow_profile"
  /\ UNCHANGED <<merge_vars, args, scontrol_out, hpc, command_string, subprocs, files, error>>

\* lines 168-177.  The call of line 171 passes log=log, and no name log is
\* bound in the function or the module: evaluating the argument raises
\* NameError before copy_config is entered, so nothing is copied and line
\* 177 is not reached.
WorkflowProfile ==
  /\ pc = "workflow_profile"
  /\ IF Truthy(workflow_profile)
     THEN /\ error' = [exc |-> "NameError", line |-> 174]
          /\ pc' = "failed"
     ELSE /\ pc' = "join"
          /\ UNCHANGED error
  /\ UNCHANGED <<merge_vars, args, scontrol_out, hpc, snake_command, command_string,
                 subprocs, files>>

\* line 180
JoinCommand ==
  /\ pc = "join"
  /\ command_string' = Join(snake_command)
  /\ pc' = "msg_box"
  /\ UNCHANGED <<merge_vars, args, scontrol_out, hpc, snake_command, subprocs, files, error>>

\* line 181: msg_box(..., log=log) raises NameError for the same unbound
\* name.  Lines 182-197 (the script write, the mode test and the dispatch
\* subprocess) are therefore never executed and have no action here.
MsgBox ==
  /\ pc = "msg_box"
  /\ error' = [exc |-> "NameError", line |-> 181]
  /\ pc' = "failed"
  /\ UNCHANGED <<merge_vars, args, scontrol_out, hpc, snake_command, command_string,
                 subprocs, files>>

Next ==
  \/ Invoke
  \/ GetHpc
  \/ CheckHpc
  \/ Assemble
  \/ WorkflowProfile
  \/ JoinCommand
  \/ MsgBox

Spec == Init /\ [][Next]_vars

\* ------------------------------------------- update_config on its own
InitUpdate ==
  /\ pc = "idle"
  /\ mode = "local" /\ threads = 1 /\ snakefile_path = None
  /\ snake_default = <<>> /\ snake_args = <<>>
  /\ profile = None /\ workflow_profile = None
  /\ scontrol_out = <<>>
  /\ hpc = None
  /\ snake_command = <<>>
  /\ command_string = ""
  /\ subprocs = <<>>
  /\ files = <<>>
  /\ error = NoError
  /\ config \in Mappings2
  /\ overwrite_config \in Mappings2 \cup DeepOverrides
  /\ key_order \in KeyOrders
  /\ config0 = config
  /\ raised = FALSE
  /\ updates = 0

\* one call update_config(config, overwrite_config)
UpdateConfig ==
  /\ updates < MaxUpdates
  /\ LET r == update_config(config, overwrite_config, key_order)
     IN  /\ config' = r.d
         /\ raised' = ~r.ok
  /\ updates' = updates + 1
  /\ UNCHANGED <<run_vars, overwrite_config, key_order, config0>>

NextUpdate == UpdateConfig

SpecUpdate == InitUpdate /\ [][NextUpdate]_vars

\* ===================================================================
\* Properties
\* ===================================================================
Failed == pc = "failed"
\* the call got past the test of lines 149-150 and has ended
EndedPast150 == Failed /\ error.line # 150
\* lines 152-166 have run
Assembled == pc \in {"workflow_profile", "join", "msg_box"} \/ EndedPast150

CountTok(seq, tok) == Cardinality({ i \in 1..Len(seq) : seq[i] = tok })
LastTwo(seq) == SubSeq(seq, Len(seq) - 1, Len(seq))
sbatch_command == "sbatch " \o slurm_filename

\* C1: a call whose mode is neither "local" nor "slurm" fails with the
\* unrecognized-mode error (the raise of line 195) before any subprocess
\* has been run.
C1_UnrecognizedModeBeforeIO ==
  (pc # "idle" /\ mode \notin {"local", "slurm"}) =>
     /\ subprocs = <<>>
     /\ Failed => error = [exc |-> "ValueError", line |-> 195]

\* C2: with mode "slurm" and no cluster name detected (None or empty), the
\* call goes from the test of line 149 straight to failure with the
\* ValueError of line 150; sbatch is never run and submit_slurm.sh is not
\* written.
C2_SlurmWithoutClusterFails ==
  (pc \notin {"idle", "get_hpc"} /\ mode = "slurm" /\ ~Truthy(hpc)) =>
     /\ pc \in {"check_hpc", "failed"}
     /\ Failed => error = [exc |-> "ValueError", line |-> 150]
     /\ ~Contains(subprocs, sbatch_command)
     /\ slurm_filename \in DOMAIN files => files[slurm_filename] = "old"

C2_Witness ==
  Failed /\ mode = "slurm" /\ hpc = "" /\ error.line = 150

\* C3: with mode "slurm" and a detected cluster that is no key of
\* hpc_options, the call fails with the unsupported-environment error.
C3_UnregisteredClusterRejected ==
  (Failed /\ mode = "slurm" /\ Truthy(hpc) /\ hpc \notin DOMAIN hpc_options) =>
     error = [exc |-> "ValueError", line |-> 150]

\* C4 as stated: the pair ["--cores", threads] is in the command iff
\* snake_args has no "--profile" and no profile is given; with a profile
\* given the command never contains "--cores"; with a profile given the
\* pair ["--profile", profile] ends the tokens of lines 147-166.
C4_CoresIffNoProfile_AsStated ==
  Assembled =>
     /\ (\E i \in 1..(Len(snake_command) - 1) :
            snake_command[i] = S("--cores") /\ snake_command[i + 1] = I(threads))
          <=> (~Contains(snake_args, "--profile") /\ profile = None)
     /\ profile # None => ~Contains(snake_command, S("--cores"))
     /\ profile # None => LastTwo(snake_command) = <<S("--profile"), S(profile)>>

\* C4 amended: the assembler puts ["--cores", threads] right after the
\* snakefile path iff snake_args has no "--profile" and profile is None,
\* and adds no other "--cores": every further "--cores" of the command
\* comes from snake_default or snake_args.  A non-empty profile is appended
\* as ["--profile", profile] after the user args, also when snake_args
\* holds a "--profile"; None and the empty string append nothing.
C4_CoresIffNoProfile ==
  Assembled =>
     LET cores == ~Contains(snake_args, "--profile") /\ profile = None
         given == CountTok(snake_default, "--cores") + CountTok(snake_args, "--cores")
         givenp == CountTok(snake_default, "--profile") + CountTok(snake_args, "--profile")
     IN  /\ CountTok(snake_command, S("--cores")) = given + (IF cores THEN 1 ELSE 0)
         /\ CountTok(snake_command, I(threads)) = (IF cores THEN 1 ELSE 0)
         /\ cores => SubSeq(snake_command, 4, 5) = <<S("--cores"), I(threads)>>
         /\ CountTok(snake_command, S("--profile")) =
               givenp + (IF Truthy(profile) THEN 1 ELSE 0)
         /\ Truthy(profile) =>
               LastTwo(snake_command) = <<S("--profile"), S(profile)>>

C4_Witness ==
  /\ pc = "workflow_profile"
  /\ profile = "slurmprof"
  /\ Contains(snake_args, "--profile")
  /\ CountTok(snake_command, S("--profile")) = 2
  /\ ~Contains(snake_command, S("--cores"))

\* C5: when the call has ended after assembling, the token list is
\* snakemake, -s, path, the optional --cores pair, snake_default,
\* snake_args, the optional --profile pair, and last, when a workflow
\* profile is given, the pair --workflow-profile <path>.
C5_TokenOrder ==
  EndedPast150 =>
     snake_command =
        <<S("snakemake"), S("-s"), S(snakefile_path)>>
        \o (IF ~Contains(snake_args, "--profile") /\ profile = None
            THEN <<S("--cores"), I(threads)>> ELSE <<>>)
        \o Strs(snake_default)
        \o Strs(snake_args)
        \o (IF Truthy(profile) THEN <<S("--profile"), S(profile)>> ELSE <<>>)
        \o (IF Truthy(workflow_profile)
            THEN <<S("--workflow-profile"), S(workflow_profile)>> ELSE <<>>)

\* C6: for workflow/Snakefile, mode local, 2 threads, nothing else and no
\* cluster, the command is "snakemake -s workflow/Snakefile --cores 2" and
\* it is the one dispatch subprocess the call has run when it ends.
C6_LocalCommandDispatched ==
  ( /\ Failed
    /\ mode = "local" /\ threads = 2 /\ snakefile_path = "workflow/Snakefile"
    /\ profile = None /\ workflow_profile = None
    /\ snake_default = <<>> /\ snake_args = <<>>
    /\ ~Truthy(hpc) ) =>
     /\ command_string = "snakemake -s workflow/Snakefile --cores 2"
     /\ subprocs = <<"scontrol show config", command_string>>

\* C7: with mode "slurm" on a cluster registered in hpc_options, when the
\* call ends submit_slurm.sh has been written and "sbatch submit_slurm.sh"
\* has been run exactly once.
C7_SlurmScriptSubmitted ==
  (Failed /\ mode = "slurm" /\ hpc \in DOMAIN hpc_options) =>
     /\ slurm_filename \in DOMAIN files
     /\ files[slurm_filename] # "old"
     /\ CountTok(subprocs, sbatch_command) = 1

\* C8: when a workflow profile is requested, <workflow_profile>/config.yaml
\* exists once the call has got past the profile step.
C8_ProfileConfigMaterialised ==
  (EndedPast150 /\ Truthy(workflow_profile)) =>
     ProfileConfig(workflow_profile) \in DOMAIN files

\* the merge C9 describes: an override mapping is merged into a base value
\* that is absent or a mapping; any other override value replaces the base
RECURSIVE override_wins(_, _)
override_wins(d, u) ==
  M([k \in DOMAIN d.m \cup DOMAIN u.m |->
       IF k \notin DOMAIN u.m THEN d.m[k]
       ELSE IF IsMapping(u.m[k]) /\ (k \notin DOMAIN d.m \/ IsMapping(d.m[k]))
            THEN override_wins(IF k \in DOMAIN d.m THEN d.m[k] ELSE M(<<>>), u.m[k])
            ELSE u.m[k]])

\* C9: update_config never raises, and leaves in config the override-wins
\* merge of the original config and the override.
C9_MergeNeverRaises ==
  updates = 1 =>
     /\ ~raised
     /\ config = override_wins(config0, overwrite_config)

\* C10: once update_config has been applied, applying it again with the
\* same override changes nothing: config stays as the first application
\* left it, and the call raises iff the first one raised.
C10_MergeIdempotent ==
  [][updates >= 1 => (config' = config /\ raised' = raised)]_vars

C10_Witness ==
  updates = 2 /\ ~raised /\ config # config0 /\ config # overwrite_config

====
